---------------------------- MODULE Spec2Model ----------------------------
(***************************************************************************)
(* A model of the poker hand evaluator and equity estimators of            *)
(* ACM-poker-bot:                                                          *)
(*   src/equity/hand_eval.py    card codec, 5-card and 7-card evaluation   *)
(*   src/equity/equity_calc.py  estimate_equity_5cards, _7cards            *)
(*   src/bot.py                 the call of ec.estimate_equity in bet      *)
(* Every operator is translated from the Python source it names.  Python   *)
(* lists are sequences (index 0 there is index 1 here), Python ints are    *)
(* integers, and a raised exception is recorded in err (its class and the  *)
(* start of its message) with ret = NoValue.                               *)
(***************************************************************************)
EXTENDS Integers, Sequences, FiniteSets

VARIABLES
    op,         \* the function called last ("none" before the first call)
    tokens,     \* its argument when given as card strings (else <<>>)
    cards,      \* its argument as card integers (card_ints in the source)
    ret,        \* the integer it returned (NoValue when it raised or returned a string)
    text,       \* the card string it returned (<<>> otherwise)
    err,        \* the exception it raised ("" when it returned)
    prevOp,     \* the function called before it ("none" before the second call)
    prevTokens, \* the card strings the call before it was given
    prevCards,  \* card_ints of the call before it
    prevRet,    \* the integer the call before it returned
    prevText,   \* the card string the call before it returned
    prevErr,    \* the exception the call before it raised
    eq,         \* the other arguments, the counters and the result of an equity call
    after,      \* the argument lists as the call left them
    heap,       \* module state: the evaluator's tables, the random generator;
                \* and the Memory object the caller of bet holds
    calls,      \* how many calls the run has made
    first       \* the first call of the run and the generator state it began in

vars == <<op, tokens, cards, ret, text, err,
          prevOp, prevTokens, prevCards, prevRet, prevText, prevErr,
          eq, after, heap, calls, first>>

-----------------------------------------------------------------------------
(* Rank and suit constants, hand_eval.py lines 21-38.                      *)
DEUCE == 0
FOUR == 2
FIVE == 3
SIX == 4
ACE == 12
SPADE == 0
HEART == 1

\* float('inf'), the start value of best_rank in evaluate_7cards
INF == 1000000

\* what ret holds when the call raised instead of returning
NoValue == 0 - 1

-----------------------------------------------------------------------------
(* The card codec.  A card string is a sequence of one-character strings.  *)

\* RANK_STR, SUIT_STR: index 0 of the Python list is index 1 here
RANK_STR == <<"2", "3", "4", "5", "6", "7", "8", "9", "t", "j", "q", "k", "a">>
SUIT_STR == <<"s", "h", "d", "c">>

\* str.lower() on the one-character strings the model uses
UpperChars == <<"T", "J", "Q", "K", "A", "S", "H", "D", "C", "X">>
LowerChars == <<"t", "j", "q", "k", "a", "s", "h", "d", "c", "x">>
lower(ch) ==
    IF \E i \in DOMAIN UpperChars : UpperChars[i] = ch
    THEN LowerChars[CHOOSE i \in DOMAIN UpperChars : UpperChars[i] = ch]
    ELSE ch

\* RANK_MAP and SUIT_MAP as functions on their key sets
RANK_MAP == [ch \in {RANK_STR[i] : i \in DOMAIN RANK_STR} |->
                (CHOOSE i \in DOMAIN RANK_STR : RANK_STR[i] = ch) - 1]
SUIT_MAP == [ch \in {SUIT_STR[i] : i \in DOMAIN SUIT_STR} |->
                (CHOOSE i \in DOMAIN SUIT_STR : SUIT_STR[i] = ch) - 1]

\* string_to_card: the exception it raises ("" when it returns)
string_to_card_err(card_str) ==
    IF Len(card_str) < 2 THEN "IndexError"
    ELSE IF lower(card_str[1]) \notin DOMAIN RANK_MAP
            \/ lower(card_str[2]) \notin DOMAIN SUIT_MAP THEN "ValueError: Invalid card string"
    ELSE ""

\* string_to_card with the suit not shifted above the rank bits
string_to_card_suit_unshifted(card_str) ==
    LET rank == RANK_MAP[lower(card_str[1])]
        suit == SUIT_MAP[lower(card_str[2])]
    IN  ((rank % 16) + (suit % 4)) % 64

\* string_to_card: (rank & 0xF) | ((suit & 0x3) << 4); the two fields do not
\* overlap, so the bitwise or is a sum
string_to_card(card_str) ==
    LET rank == RANK_MAP[lower(card_str[1])]
        suit == SUIT_MAP[lower(card_str[2])]
    IN  (rank % 16) + ((suit % 4) * 16)

\* card_to_string: rank = card & 0xF indexes RANK_STR, which has 13 entries
card_to_string_err(card) ==
    IF (card % 16) + 1 \notin DOMAIN RANK_STR THEN "IndexError" ELSE ""

\* card_to_string reading one suit bit instead of two
card_to_string_one_suit_bit(card) ==
    <<RANK_STR[(card % 16) + 1], SUIT_STR[((card \div 16) % 2) + 1]>>

card_to_string(card) ==
    <<RANK_STR[(card % 16) + 1], SUIT_STR[((card \div 16) % 4) + 1]>>

-----------------------------------------------------------------------------
(* Python list helpers.                                                    *)

\* list.count(x)
count(s, x) == Cardinality({i \in DOMAIN s : s[i] = x})

\* set(list)
set(s) == {s[i] : i \in DOMAIN s}

Rep(x, n) == [i \in 1..n |-> x]

\* sorted(s, reverse=True) for a list of integers in 0..hi
RECURSIVE SortedFrom(_, _)
SortedFrom(s, x) ==
    IF x < 0 THEN <<>> ELSE Rep(x, count(s, x)) \o SortedFrom(s, x - 1)
sorted_reverse(s) == SortedFrom(s, 15)

\* sum(...) of a list
RECURSIVE sum(_)
sum(s) == IF s = <<>> THEN 0 ELSE Head(s) + sum(Tail(s))

\* max(...), min(...) of a non-empty set of integers
max(S) == CHOOSE x \in S : \A y \in S : y <= x
min(S) == CHOOSE x \in S : \A y \in S : x <= y

\* sorted(Counter(ranks).values(), reverse=True)
counts(ranks) ==
    LET values(c) == Rep(c, Cardinality({r \in set(ranks) : count(ranks, r) = c}))
    IN  values(7) \o values(6) \o values(5) \o values(4) \o values(3)
            \o values(2) \o values(1)

\* sum((13 - k) * (100 >> (i * 2)) for i, k in enumerate(kickers[:n]))
kicker_value(kickers, n) ==
    LET m == IF Len(kickers) < n THEN Len(kickers) ELSE n
    IN  sum([i \in 1..m |-> (13 - kickers[i]) * (100 \div (4 ^ (i - 1)))])

-----------------------------------------------------------------------------
(* HandEvaluator.                                                          *)

\* _classify_hand(ranks): the value of a hand by its rank frequencies
_classify_hand(ranks) ==
    LET ranks_sorted == sorted_reverse(ranks)
        cnt == counts(ranks)
        with(n) == SelectSeq(ranks_sorted, LAMBDA r : count(ranks, r) = n)
        kickers == sorted_reverse(SelectSeq(ranks, LAMBDA r : count(ranks, r) = 1))
    IN  IF cnt = <<4, 1>> THEN
            1000 + (12 - with(4)[1])
        ELSE IF cnt = <<3, 2>> THEN
            1200 + (12 - with(3)[1]) * 13 + (12 - with(2)[1])
        ELSE IF cnt = <<3, 1, 1>> THEN
            2000 + (12 - with(3)[1]) * 100 + kicker_value(kickers, 2)
        ELSE IF cnt = <<2, 2, 1>> THEN
            \* pairs lists every card of a pair, so pairs[0] and pairs[1]
            \* are the two cards of the higher pair
            LET pairs == sorted_reverse(with(2))
                kicker == SelectSeq(ranks, LAMBDA r : count(ranks, r) = 1)[1]
            IN  3000 + (12 - pairs[1]) * 100 + (12 - pairs[2]) * 10 + (12 - kicker)
        ELSE IF cnt = <<2, 1, 1, 1>> THEN
            4000 + (12 - with(2)[1]) * 1000 + kicker_value(kickers, 3)
        ELSE
            6200 + (12 - ranks_sorted[1]) * 1000
                + sum([i \in 1..(Len(ranks_sorted) - 1) |-> 12 - ranks_sorted[i + 1]])

\* _is_straight(ranks)
_is_straight(ranks) ==
    IF Len(ranks) # 5 THEN FALSE
    ELSE IF max(set(ranks)) - min(set(ranks)) = 4 /\ Cardinality(set(ranks)) = 5
        THEN TRUE
    ELSE IF set(ranks) = {0, 1, 2, 3, 12} THEN TRUE
    ELSE FALSE

\* _evaluate without the wheel's own value among the straights
_evaluate_wheel_by_high_card(card_ints) ==
    LET suits == [i \in DOMAIN card_ints |-> (card_ints[i] \div 16) % 4]
        ranks == [i \in DOMAIN card_ints |-> card_ints[i] % 16]
        is_flush == Cardinality(set(suits)) = 1
        ranks_sorted == sorted_reverse(ranks)
        is_straight == _is_straight(ranks_sorted)
    IN  IF is_flush /\ is_straight THEN
            IF set(ranks) = {0, 1, 2, 3, 12} THEN 1
            ELSE 12 - max(set(ranks))
        ELSE IF is_flush THEN
            1400 + (12 - ranks_sorted[1]) * 1000
                + sum([i \in 1..(Len(ranks_sorted) - 1) |-> 12 - ranks_sorted[i + 1]])
        ELSE IF is_straight THEN
            1600 + (12 - ranks_sorted[1])
        ELSE _classify_hand(ranks)

\* _evaluate(card_ints): the value of exactly five cards, lower is better
_evaluate(card_ints) ==
    LET suits == [i \in DOMAIN card_ints |-> (card_ints[i] \div 16) % 4]
        ranks == [i \in DOMAIN card_ints |-> card_ints[i] % 16]
        is_flush == Cardinality(set(suits)) = 1
        ranks_sorted == sorted_reverse(ranks)
        is_straight == _is_straight(ranks_sorted)
    IN  IF is_flush /\ is_straight THEN
            IF set(ranks) = {0, 1, 2, 3, 12} THEN 1
            ELSE 12 - max(set(ranks))
        ELSE IF is_flush THEN
            1400 + (12 - ranks_sorted[1]) * 1000
                + sum([i \in 1..(Len(ranks_sorted) - 1) |-> 12 - ranks_sorted[i + 1]])
        ELSE IF is_straight THEN
            IF set(ranks) = {0, 1, 2, 3, 12} THEN 1600 + 799
            ELSE 1600 + (12 - ranks_sorted[1])
        ELSE _classify_hand(ranks)


\* the isinstance(card, str) loop of evaluate_5cards and evaluate_7cards on
\* a list of card strings: the first exception string_to_card raises, if any
card_ints_err(card_strs) ==
    LET bad == {i \in DOMAIN card_strs : string_to_card_err(card_strs[i]) # ""}
    IN  IF bad = {} THEN "" ELSE string_to_card_err(card_strs[min(bad)])

\* what a function returns when it falls off its end
None == "None"

\* hand_rank_name(rank)
hand_rank_name(rank) ==
    IF rank < 1000 THEN
        IF rank >= 4096 THEN "Straight"
        ELSE IF rank >= 2048 THEN
            IF rank >= 3072 THEN "Four of a Kind"
            ELSE IF rank >= 2560 THEN "Full House"
            ELSE IF rank >= 2560 THEN "Flush"
            ELSE IF rank >= 2304 THEN "Three of a Kind"
            ELSE IF rank >= 2176 THEN "Two Pair"
            ELSE IF rank >= 2144 THEN "Pair"
            ELSE "High Card"
        ELSE None
    ELSE "Flush"

\* the same loop: the list card_ints it builds
card_ints_of(card_strs) ==
    [i \in DOMAIN card_strs |-> string_to_card(card_strs[i])]

\* evaluate_5cards(cards): the exception raised for a list of n cards
evaluate_5cards_err(n) ==
    IF n # 5 THEN "ValueError: Expected 5 cards" ELSE ""

\* evaluate_5cards(cards): the value returned for the card integers
evaluate_5cards(card_ints) == _evaluate(card_ints)

\* evaluate_7cards accepting six cards as well as seven
evaluate_7cards_err_six_or_seven(n) ==
    IF n # 7 /\ n # 6 THEN "ValueError: Expected 7 cards" ELSE ""

\* evaluate_7cards(cards): the exception raised for a list of n cards
evaluate_7cards_err(n) ==
    IF n # 7 THEN "ValueError: Expected 7 cards" ELSE ""

\* itertools.combinations(s, k): the sub-lists of k elements, order kept
combinations(s, k) ==
    LET picks == {I \in SUBSET DOMAIN s : Cardinality(I) = k}
        sub(I) == [i \in 1..k |->
                    s[CHOOSE x \in I : Cardinality({y \in I : y < x}) = i - 1]]
    IN  {sub(I) : I \in picks}

\* evaluate_7cards trying only the combinations of the first six cards
evaluate_7cards_first_six(card_ints) ==
    min({INF} \cup {_evaluate(combo) :
                        combo \in combinations(SubSeq(card_ints, 1, 6), 5)})

\* evaluate_7cards(cards): best_rank after the loop over the combinations
evaluate_7cards(card_ints) ==
    min({INF} \cup {_evaluate(combo) : combo \in combinations(card_ints, 5)})

-----------------------------------------------------------------------------
(* Inputs.  A hand is dealt from a non-decreasing list of five ranks: the  *)
(* k-th card of a rank gets suit k-1, so no physical card is dealt twice;  *)
(* five distinct ranks are dealt once in one suit and once in two suits.   *)

\* the number of low ranks (from the deuce up) the dealt hands use
LowRanks == 5

RankPool == (DEUCE..(DEUCE + LowRanks - 1)) \cup {ACE}

RankLists(pool) ==
    {s \in [1..5 -> pool] :
        /\ \A i \in 1..4 : s[i] <= s[i + 1]
        /\ \A r \in pool : count(s, r) <= 4}

Deal(ranks, suited) ==
    [i \in 1..5 |->
        LET earlier == Cardinality({j \in 1..(i - 1) : ranks[j] = ranks[i]})
            suit == IF suited THEN SPADE
                    ELSE IF Cardinality(set(ranks)) = 5 /\ i = 5 THEN HEART
                    ELSE earlier
        IN  ranks[i] + 16 * suit]

HandsOver(lists) ==
    {Deal(s, FALSE) : s \in lists}
        \cup {Deal(s, TRUE) : s \in {t \in lists : Cardinality(set(t)) = 5}}

Hands == HandsOver(RankLists(RankPool))

\* how far a hand of five distinct ranks may be from a run of five: the
\* ranks span at most 5 + MaxGap consecutive ranks, the ace counted high or low
MaxGap == 1

\* the elements of a set of integers in increasing order
Ascending(S) ==
    [i \in 1..Cardinality(S) |->
        CHOOSE x \in S : Cardinality({y \in S : y < x}) = i - 1]

NearRun(S) ==
    \/ max(S) - min(S) <= 4 + MaxGap
    \/ ACE \in S /\ max(S \ {ACE}) <= FIVE + MaxGap

\* the straights, and the hands of five distinct ranks next to them
StraightHands ==
    HandsOver({Ascending(S) : S \in {T \in SUBSET (DEUCE..ACE) :
                                        Cardinality(T) = 5 /\ NearRun(T)}})

\* how many ranks, from the deuce up, the hands of five distinct ranks use
DistinctRanks == 8

DistinctHands ==
    HandsOver({Ascending(S) : S \in {T \in SUBSET (DEUCE..(DEUCE + DistinctRanks - 1)) :
                                        Cardinality(T) = 5}})

\* The cards the best-of-seven inputs are drawn from, most useful first:
\* As Ks Qs Js Ts, Ad Kd, Ah, 2s 2d, then 9s Kh
DeckList == <<12, 11, 10, 9, 8, 44, 43, 28, 0, 32, 7, 27>>

\* how many cards of DeckList are in play
BestDeckSize == 10

BestDeck == {DeckList[i] : i \in 1..BestDeckSize}

Rotate(s, k) == [i \in DOMAIN s |-> s[((i - 1 + k) % Len(s)) + 1]]
Reverse(s) == [i \in DOMAIN s |-> s[Len(s) + 1 - i]]

\* a few of the orders a set of cards can be given in
Orders(S) ==
    {Rotate(Ascending(S), k) : k \in 0..(Cardinality(S) - 1)}
        \cup {Reverse(Ascending(S))}

\* lists of n distinct cards: every order above for seven cards, one order
\* for the other lengths
DistinctLists(n) ==
    LET sets == {S \in SUBSET BestDeck : Cardinality(S) = n}
    IN  IF n = 7 THEN UNION {Orders(S) : S \in sets}
        ELSE {Ascending(S) : S \in sets}

\* lists of n cards whose last card repeats the first
RepeatedLists(n) ==
    {[s EXCEPT ![n] = s[1]] : s \in {Ascending(S) : S \in
        {T \in SUBSET BestDeck : Cardinality(T) = n}}}

\* str.upper() on the characters of a card string, and spellings of a list
\* of cards: lower case, upper case, and the first card replaced by "xs"
upper(ch) ==
    IF \E i \in DOMAIN LowerChars : LowerChars[i] = ch
    THEN UpperChars[CHOOSE i \in DOMAIN LowerChars : LowerChars[i] = ch]
    ELSE ch
Spell(s) == [i \in DOMAIN s |-> card_to_string(s[i])]
SpellUpper(s) ==
    [i \in DOMAIN s |-> <<upper(card_to_string(s[i])[1]), upper(card_to_string(s[i])[2])>>]
SpellBad(s) == [Spell(s) EXCEPT ![1] = <<"x", "s">>]
\* the last card spelled in upper case repeats the first spelled in lower case
SpellRepeated(s) == [Spell(s) EXCEPT ![Len(s)] = SpellUpper(s)[1]]
Spellings(lists) ==
    {Spell(s) : s \in lists} \cup {SpellUpper(s) : s \in lists}
        \cup {SpellBad(s) : s \in lists} \cup {SpellRepeated(s) : s \in lists}

\* the longest list of cards given to evaluate_best_hand
MaxListLen == 8

\* how many cards of DeckList the lists given as strings use
StrDeckSize == 8

StrDeck == {DeckList[i] : i \in 1..StrDeckSize}

IntInputs5 == DistinctLists(5) \cup RepeatedLists(5)
IntInputs7 == UNION {DistinctLists(n) : n \in 0..MaxListLen} \cup RepeatedLists(7)
StrInputs5 == Spellings({Ascending(S) : S \in {T \in SUBSET StrDeck : Cardinality(T) = 5}})
StrInputs7 == Spellings({Ascending(S) : S \in {T \in SUBSET StrDeck :
                                                Cardinality(T) \in {6, 7}}})

\* Card strings: every two-character string over the rank and suit
\* characters in both cases and a character that is neither, the strings of
\* length 0 and 1, and the valid lower-case strings with a character added
RankChars == set(RANK_STR) \cup {upper(RANK_STR[i]) : i \in DOMAIN RANK_STR}
SuitChars == set(SUIT_STR) \cup {upper(SUIT_STR[i]) : i \in DOMAIN SUIT_STR}
Chars == RankChars \cup SuitChars \cup {"x", "X"}
TwoChars == {<<a, b>> : a \in Chars, b \in Chars}
CardStrings ==
    TwoChars \cup {<<>>} \cup {<<a>> : a \in Chars}
        \cup {<<r, u, "x">> : r \in set(RANK_STR), u \in set(SUIT_STR)}

\* the largest integer card_to_string is called with
MaxCardInt == 64

-----------------------------------------------------------------------------
(* Module state.  HandEvaluator() builds two tables once, at import        *)
(* (hand_eval.py lines 86-138); equity_calc.py imports random, whose       *)
(* generator is module state too.  The tables are modelled for the masks   *)
(* of the lowest TableRanks ranks.                                         *)

\* how many ranks, from the deuce up, the modelled part of the tables covers
TableRanks == 6

\* the 13-bit mask of a set of ranks: bit r is set if rank r is in the set
mask(S) == sum([i \in 1..Cardinality(S) |-> 2 ^ Ascending(S)[i]])

\* the masks with five bits set, as sets of ranks
TableKeys == {S \in SUBSET (DEUCE..(DEUCE + TableRanks - 1)) : Cardinality(S) = 5}

\* _build_flush_table(): mask -> _classify_hand(ranks), ranks ascending
_build_flush_table ==
    [m \in {mask(S) : S \in TableKeys} |->
        _classify_hand(Ascending(CHOOSE S \in TableKeys : mask(S) = m))]

\* _build_unique_table(): the key is the XOR of the rank bits, the mask again
_build_unique_table ==
    [m \in {mask(S) : S \in TableKeys} |->
        _classify_hand(Ascending(CHOOSE S \in TableKeys : mask(S) = m))]

\* the generator of the random module before random.seed is called
Unseeded == [seed |-> NoValue, draws |-> 0]

\* random.seed(s)
random_seed(s) == [seed |-> s, draws |-> 0]

-----------------------------------------------------------------------------
(* The equity estimators, equity_calc.py.  The equity is the Python float  *)
(* (wins + ties / k) / N; the model keeps it as the exact fraction         *)
(* num / den.  Every trial of a call runs the same statements on the same  *)
(* values (nothing is sampled), so a call has one trial outcome.           *)

\* what a call holds when it ends: the exception raised ("" if it
\* returned), the counters wins and ties, how many hands it evaluated, how
\* many trials it started, and the equity returned as num / den
Ended(e, w, t, evaluated, started, value) ==
    [err |-> e, wins |-> w, ties |-> t, evals |-> evaluated, trials |-> started,
     num |-> IF e = "" THEN value[1] ELSE NoValue,
     den |-> IF e = "" THEN value[2] ELSE NoValue]

\* lines 45-48 and 82-85: the branch one trial takes
trial_outcome_after_first_call(my_rank, best_opponent_rank) ==
    IF calls >= 1 THEN "win"
    ELSE IF my_rank < best_opponent_rank THEN "win"
    ELSE IF my_rank = best_opponent_rank THEN "tie"
    ELSE "loss"

trial_outcome(my_rank, best_opponent_rank) ==
    IF my_rank < best_opponent_rank THEN "win"
    ELSE IF my_rank = best_opponent_rank THEN "tie"
    ELSE "loss"

\* the loop counting its first trial only
times_first_trial_only(outcome, branch, num_simulations) ==
    Cardinality({trial \in 1..num_simulations : trial = 1 /\ outcome = branch})

\* how often the loop over range(num_simulations) takes a branch
times(outcome, branch, num_simulations) ==
    Cardinality({trial \in 1..num_simulations : outcome = branch})

\* the return statement crediting a tie once for every opponent
equity_value_tie_times_opponents(wins, ties, num_opponents, num_simulations) ==
    IF num_opponents = 0 THEN <<0, 1>>
    ELSE <<wins + ties * num_opponents, num_simulations>>

\* lines 51 and 87: (wins + ties / len(opponents)) / num_simulations if
\* opponents else 0, as <<numerator, denominator>>
equity_value(wins, ties, num_opponents, num_simulations) ==
    IF num_opponents = 0 THEN <<0, 1>>
    ELSE <<wins * num_opponents + ties, num_opponents * num_simulations>>

\* the same statement: the division by num_simulations
equity_value_err(num_opponents, num_simulations) ==
    IF num_opponents # 0 /\ num_simulations = 0 THEN "ZeroDivisionError" ELSE ""

\* lines 40-43: the hand whose rank opp_rank holds when line 43 reads it
\* for hand i, the last hand of five cards at or before i (0: opp_rank was
\* never assigned; it is assigned in trial 1 or the call has ended there)
opp_rank_from(opponent_hands, i) ==
    max({0} \cup {j \in 1..i : Len(opponent_hands[j]) = 5})

\* lines 39-43: best_opponent_rank after the inner loop
best_opponent_rank_5cards(opponent_hands) ==
    min({INF} \cup {evaluate_5cards(opponent_hands[opp_rank_from(opponent_hands, i)]) :
                        i \in DOMAIN opponent_hands})

\* estimate_equity_5cards(my_hand, opponent_hands, num_simulations)
estimate_equity_5cards(my_hand, opponent_hands, num_simulations) ==
    LET k == Len(opponent_hands)
        unassigned == {i \in 1..k : opp_rank_from(opponent_hands, i) = 0}
        sized == {i \in 1..k : Len(opponent_hands[i]) = 5}
        outcome == trial_outcome(evaluate_5cards(my_hand),
                                 best_opponent_rank_5cards(opponent_hands))
        wins == times(outcome, "win", num_simulations)
        ties == times(outcome, "tie", num_simulations)
    IN  IF Len(my_hand) # 5
        THEN Ended("ValueError: my_hand must be exactly 5 cards", 0, 0, 0, 0, <<>>)
        ELSE IF num_simulations >= 1 /\ unassigned # {}
        THEN Ended("UnboundLocalError", 0, 0,
                   1 + Cardinality({j \in sized : j < min(unassigned)}), 1, <<>>)
        ELSE IF equity_value_err(k, num_simulations) # ""
        THEN Ended(equity_value_err(k, num_simulations), wins, ties, 1, 0, <<>>)
        ELSE Ended("", wins, ties, 1 + num_simulations * Cardinality(sized),
                   num_simulations, equity_value(wins, ties, k, num_simulations))

\* lines 75-80: best_opponent_rank after the inner loop
best_opponent_rank_7cards(opponent_cards) ==
    min({INF} \cup {evaluate_7cards(opponent_cards[i]) : i \in DOMAIN opponent_cards})

\* estimate_equity_7cards(my_cards, opponent_cards, num_simulations)
estimate_equity_7cards(my_cards, opponent_cards, num_simulations) ==
    LET k == Len(opponent_cards)
        wrong == {i \in 1..k : Len(opponent_cards[i]) # 7}
        outcome == trial_outcome(evaluate_7cards(my_cards),
                                 best_opponent_rank_7cards(opponent_cards))
        wins == times(outcome, "win", num_simulations)
        ties == times(outcome, "tie", num_simulations)
    IN  IF Len(my_cards) # 7
        THEN Ended("ValueError: my_cards must be exactly 7 cards", 0, 0, 0, 0, <<>>)
        ELSE IF num_simulations >= 1 /\ wrong # {}
        THEN Ended("ValueError: Each opponent hand must be exactly 7 cards", 0, 0,
                   1 + (min(wrong) - 1), 1, <<>>)
        ELSE IF equity_value_err(k, num_simulations) # ""
        THEN Ended(equity_value_err(k, num_simulations), wins, ties, 1, 0, <<>>)
        ELSE Ended("", wins, ties, 1 + num_simulations * k, num_simulations,
                   equity_value(wins, ties, k, num_simulations))

-----------------------------------------------------------------------------
(* bot.py: seat positions.                                                 *)

\* class Preflop_Position(Enum): the member names by value, SB = 0 first
Preflop_Position == <<"SB", "BB", "UTG", "MP", "CO", "BTN">>

\* get_preflop_position adding nothing when the player sits behind the
\* small blind
clockwise_distance_no_wrap(player_index, sb_index) ==
    IF player_index - sb_index < 0
    THEN sb_index - player_index
    ELSE player_index - sb_index

\* get_preflop_position lines 65-73: clockwise_distance
clockwise_distance(player_index, sb_index) ==
    IF player_index - sb_index < 0
    THEN player_index + (6 - sb_index)
    ELSE player_index - sb_index

\* line 75, Preflop_Position(value): the Enum lookup raises for a value
\* that no member has
Preflop_Position_err(value) ==
    IF value + 1 \in DOMAIN Preflop_Position THEN ""
    ELSE "ValueError: not a valid Preflop_Position"

\* the names the module equity_calc defines or imports
equity_calc_names ==
    {"evaluate_hand", "evaluate_best_hand", "random",
     "estimate_equity_5cards", "estimate_equity_7cards"}

\* ec.<name> in bot.py: the attribute lookup on the module
ec_attribute_err(name) ==
    IF name \in equity_calc_names THEN "" ELSE "AttributeError"

\* evaluate_5cards and evaluate_7cards reversing their argument in place
cards_after_evaluate_reversed(cards_arg) ==
    Reverse(cards_arg)

\* the list given to evaluate_5cards or evaluate_7cards when the call
\* ends: the functions read it (len, iteration) and build card_ints anew
cards_after_evaluate(cards_arg) ==
    cards_arg

\* the hero's list and the list of opponent lists when an estimator ends:
\* they are read (len, iteration) and passed to the evaluator
lists_after_estimate(my_hand, opponent_hands) ==
    [my |-> cards_after_evaluate(my_hand),
     opps |-> [i \in DOMAIN opponent_hands |-> cards_after_evaluate(opponent_hands[i])]]

-----------------------------------------------------------------------------
(* Inputs of the estimators.  A card is rank + 16 * suit, the suits being  *)
(* s = 0, h = 1, d = 2, c = 3.                                             *)

\* As Ad Kh Qc Jh; Ah Ac Ks Qd Js, the same pair and kickers; Kd 9d 7d 4d
\* 2d, a flush; 9s 8c 7h 6d 5c, a straight; 2s 3d 4h 5h 7s; Kc Qs Jd 9h 8s
EquityHands5 ==
    <<(<<12, 44, 27, 58, 25>>), (<<28, 60, 11, 42, 9>>), (<<43, 39, 37, 34, 32>>),
      (<<7, 54, 21, 36, 51>>), (<<0, 33, 18, 19, 5>>), (<<59, 10, 41, 23, 6>>)>>

\* how many of them are in play
EquityHandCount == 4

\* As Ad, 2s 3d, Ah Ac and Ks Kd, each with the board Kh Qc Jh 9s 8d
EquityHands7 ==
    <<(<<12, 44, 27, 58, 25, 7, 38>>), (<<0, 33, 27, 58, 25, 7, 38>>),
      (<<28, 60, 27, 58, 25, 7, 38>>), (<<11, 43, 27, 58, 25, 7, 38>>)>>

\* how many of them are in play
EquityHandCount7 == 2

\* a list of four cards and a list of six cards
Short5 == SubSeq(EquityHands5[1], 1, 4)
Short7 == SubSeq(EquityHands7[1], 1, 6)

Given5 == {EquityHands5[i] : i \in 1..EquityHandCount} \cup {Short5}
Given7 == {EquityHands7[i] : i \in 1..EquityHandCount7} \cup {Short7}

\* the most opponent hands in a call, and the largest num_simulations
MaxOpponents == 2
MaxSims == 2

\* the lists of at most n elements of S
ListsUpTo(S, n) == UNION {[1..m -> S] : m \in 0..n}

\* the villain ranges given to estimate_equity: the first cards of DeckList
\* as strings; the most cards in a range, and the most opponents
MaxPool == 5
MaxOpps == 3
Pools == {Spell(SubSeq(DeckList, 1, n)) : n \in 0..MaxPool}

\* hero hole cards 2s 2d and the boards of no card and of Kd Ah 9s
HeroHoles == {Spell(<<0, 32>>)}
Boards == {<<>>, Spell(<<43, 28, 7>>)}

\* the largest seat index get_preflop_position is given; the table has
\* the seats 0..5
MaxSeat == 6

\* the values random.seed is called with (test_equity_calc.py)
Seeds == {42, 99}

\* the inputs of the runs that repeat their first call
RepeatHands5 == {EquityHands5[1], EquityHands5[3], Short5}
RepeatHands7 == {EquityHands7[1], Short7}

-----------------------------------------------------------------------------
(* opp_eval.py and bot.py: the aggression estimators kept in Memory, and   *)
(* bet() after the flop.  A float is kept as the exact fraction num / den  *)
(* in lowest terms.                                                        *)

RECURSIVE gcd(_, _)
gcd(a, b) == IF b = 0 THEN a ELSE gcd(b, a % b)
Frac(n, d) == [num |-> n \div gcd(n, d), den |-> d \div gcd(n, d)]

\* a dict with no key, and d[k] = v
EmptyDict == [k \in {} |-> NoValue]
dict_set(d, k, v) == [x \in DOMAIN d \cup {k} |-> IF x = k THEN v ELSE d[x]]

\* OpponentAggressionEstimator(): init_avg 0.15, init_big_rate 0.05, t 0
OpponentAggressionEstimator ==
    [avg_bet_ratio |-> Frac(15, 100), big_bet_rate |-> Frac(5, 100), t |-> 0]

\* update(bet_ratio, stack_bb) with bet_ratio = ratio_num / ratio_den and
\* ewma_alpha = 0.15; the score it returns is dropped by bet
update(self, ratio_num, ratio_den) ==
    LET big_flag == IF 2 * ratio_num >= ratio_den THEN 1 ELSE 0
    IN  [avg_bet_ratio |->
             Frac(17 * self.avg_bet_ratio.num * ratio_den
                      + 3 * ratio_num * self.avg_bet_ratio.den,
                  20 * self.avg_bet_ratio.den * ratio_den),
         big_bet_rate |->
             Frac(17 * self.big_bet_rate.num + 3 * big_flag * self.big_bet_rate.den,
                  20 * self.big_bet_rate.den),
         t |-> self.t + 1]

\* update called on every visit of the player, changed bet or not
update_on_every_call(memory, player_id, curr_bet, main_pot_value) ==
    LET seen == player_id \in DOMAIN memory.villain_aggro_map
        est == IF seen THEN memory.villain_aggro_map[player_id]
               ELSE OpponentAggressionEstimator
        ratio_num == IF main_pot_value > 0 THEN curr_bet ELSE 0
        ratio_den == IF main_pot_value > 0 THEN main_pot_value ELSE 1
    IN  [memory EXCEPT
            !.villain_aggro_map = dict_set(@, player_id, update(est, ratio_num, ratio_den)),
            !.villain_last_bet = dict_set(@, player_id, curr_bet)]

\* Memory()
Memory ==
    [villain_aggro_map |-> EmptyDict, villain_last_bet |-> EmptyDict,
     population_avg_aggression |-> Frac(15, 100)]

\* main_pot_value = state.pots[0].value if state.pots else 1
main_pot_value_of(pots) == IF Len(pots) > 0 THEN pots[1] ELSE 1

\* one pass of the loop over enumerate(state.players): the estimator is
\* made when the player is new, updated when the player is new with a
\* positive bet or the bet differs from villain_last_bet
track_player(memory, player_id, curr_bet, main_pot_value) ==
    LET created ==
            IF player_id \in DOMAIN memory.villain_aggro_map THEN memory.villain_aggro_map
            ELSE dict_set(memory.villain_aggro_map, player_id, OpponentAggressionEstimator)
        ratio_num == IF main_pot_value > 0 THEN curr_bet ELSE 0
        ratio_den == IF main_pot_value > 0 THEN main_pot_value ELSE 1
        updated == dict_set(created, player_id, update(created[player_id], ratio_num, ratio_den))
    IN  IF player_id \notin DOMAIN memory.villain_last_bet
        THEN [memory EXCEPT
                !.villain_aggro_map = IF curr_bet > 0 THEN updated ELSE created,
                !.villain_last_bet = dict_set(@, player_id, curr_bet)]
        ELSE IF curr_bet # memory.villain_last_bet[player_id]
        THEN [memory EXCEPT
                !.villain_aggro_map = updated,
                !.villain_last_bet = dict_set(@, player_id, curr_bet)]
        ELSE [memory EXCEPT !.villain_aggro_map = created]

\* the loop of bet over the players from seat k on (seats count from 1 here)
RECURSIVE track_players(_, _, _, _, _)
track_players(memory, players, bet_money, main_pot_value, k) ==
    IF k > Len(players) THEN memory
    ELSE track_players(track_player(memory, players[k], bet_money[k], main_pot_value),
                       players, bet_money, main_pot_value, k + 1)

\* [(i, state.players[i]) for i, m in enumerate(state.bet_money) if m > 0],
\* with i counted from 0 as the code counts
players_in_pot_of(players, bet_money) ==
    LET seats == SelectSeq([k \in DOMAIN bet_money |-> k], LAMBDA k : bet_money[k] > 0)
    IN  [j \in DOMAIN seats |-> <<seats[j] - 1, players[seats[j]]>>]

\* the value of i when line 329 reads it: the loop over players_in_pot
\* bound it last, or the loop over the players when no one is in the pot
loop_variable_i(players, bet_money) ==
    LET in_pot == players_in_pot_of(players, bet_money)
    IN  IF Len(in_pot) > 0 THEN in_pot[Len(in_pot)][1] ELSE Len(players) - 1

\* the entry line 329 asks list.remove to remove
removed_entry(players, bet_money, index_to_action) ==
    <<index_to_action, players[loop_variable_i(players, bet_money) + 1]>>

\* list.remove(x): the first item equal to x is taken out
list_remove(lst, x) ==
    LET at == min({j \in DOMAIN lst : lst[j] = x})
    IN  [j \in 1..(Len(lst) - 1) |-> IF j < at THEN lst[j] ELSE lst[j + 1]]
list_remove_err(lst, x) ==
    IF \E j \in DOMAIN lst : lst[j] = x THEN "" ELSE "ValueError: list.remove(x): x not in list"

\* bet(state, memory) after the flop, up to the call of ec.estimate_equity:
\* the error it ends with, and players_in_pot when line 329 is passed
bet_err(players, bet_money, index_to_action) ==
    IF list_remove_err(players_in_pot_of(players, bet_money),
                       removed_entry(players, bet_money, index_to_action)) # ""
    THEN list_remove_err(players_in_pot_of(players, bet_money),
                         removed_entry(players, bet_money, index_to_action))
    ELSE ec_attribute_err("estimate_equity")
bet_players_in_pot(players, bet_money, index_to_action) ==
    IF list_remove_err(players_in_pot_of(players, bet_money),
                       removed_entry(players, bet_money, index_to_action)) # ""
    THEN players_in_pot_of(players, bet_money)
    ELSE list_remove(players_in_pot_of(players, bet_money),
                     removed_entry(players, bet_money, index_to_action))

\* the tables bet is called at: the players, what a player can have bet,
\* the pots (none, an empty main pot, a main pot of 20)
BetPlayers == <<"a", "b", "c">>
BetAmounts == {0, 10, 20}
BetPots == {<<>>, <<0>>, <<20>>}
BetHole == <<<<"a", "s">>, <<"k", "s">>>>
BetBoard == <<<<"2", "s">>, <<"3", "h">>, <<"4", "d">>>>

\* a smaller table for runs of several bet calls sharing one Memory
TrackPlayers == <<"a", "b">>
TrackAmounts == {0, 10}
TrackPots == {<<>>, <<20>>}
MaxBetCalls == 3

-----------------------------------------------------------------------------
(* The calls.  Each call keeps the call before it, so that two results can *)
(* be compared.                                                            *)

\* eq and after for a call that is no equity call and takes no list
NoEq ==
    [opponents |-> <<>>, pool |-> <<>>, num_opps |-> 0, board |-> <<>>, sims |-> 0,
     wins |-> 0, ties |-> 0, evals |-> 0, trials |-> 0, num |-> NoValue, den |-> NoValue,
     index_to_action |-> NoValue, pots |-> <<>>, players_in_pot |-> <<>>]
NoLists == [my |-> <<>>, opps |-> <<>>]

\* the new call becomes the last call; the first call of a run is kept
Shift ==
    /\ prevOp' = op
    /\ prevTokens' = tokens
    /\ prevCards' = cards
    /\ prevRet' = ret
    /\ prevText' = text
    /\ prevErr' = err
    /\ calls' = calls + 1
    /\ first' = IF calls = 0
                THEN [op |-> op', tokens |-> tokens', cards |-> cards', eq |-> eq',
                      ret |-> ret', text |-> text', err |-> err', rng |-> heap.rng]
                ELSE first

\* a call that is given card integers
CallInts(name, h, e, value) ==
    /\ op' = name
    /\ tokens' = <<>>
    /\ cards' = h
    /\ err' = e
    /\ ret' = IF e = "" THEN value ELSE NoValue
    /\ text' = <<>>
    /\ eq' = NoEq
    /\ after' = [my |-> cards_after_evaluate(h), opps |-> <<>>]
    /\ UNCHANGED heap
    /\ Shift

\* a call that is given card strings: card_ints is built after the length
\* check, and only if every string converts
CallStrs(name, toks, countErr, value) ==
    LET e == IF countErr # "" THEN countErr ELSE card_ints_err(toks)
    IN  /\ op' = name
        /\ tokens' = toks
        /\ cards' = IF e = "" THEN card_ints_of(toks) ELSE <<>>
        /\ err' = e
        /\ ret' = IF e = "" THEN value ELSE NoValue
        /\ text' = <<>>
        /\ eq' = NoEq
        /\ after' = [my |-> cards_after_evaluate(toks), opps |-> <<>>]
        /\ UNCHANGED heap
        /\ Shift

\* evaluate_hand(cards) with card integers
EvaluateHand(h) ==
    CallInts("evaluate_hand", h, evaluate_5cards_err(Len(h)), evaluate_5cards(h))

\* evaluate_hand(cards) with card strings
EvaluateHandStr(toks) ==
    CallStrs("evaluate_hand", toks, evaluate_5cards_err(Len(toks)),
             evaluate_5cards(card_ints_of(toks)))

\* evaluate_best_hand(cards) with card integers
EvaluateBestHand(h) ==
    CallInts("evaluate_best_hand", h, evaluate_7cards_err(Len(h)), evaluate_7cards(h))

\* evaluate_best_hand(cards) with card strings
EvaluateBestHandStr(toks) ==
    CallStrs("evaluate_best_hand", toks, evaluate_7cards_err(Len(toks)),
             evaluate_7cards(card_ints_of(toks)))

\* string_to_card(card_str)
StringToCard(card_str) ==
    /\ op' = "string_to_card"
    /\ tokens' = <<card_str>>
    /\ cards' = <<>>
    /\ err' = string_to_card_err(card_str)
    /\ ret' = IF string_to_card_err(card_str) = "" THEN string_to_card(card_str)
              ELSE NoValue
    /\ text' = <<>>
    /\ eq' = NoEq
    /\ after' = NoLists
    /\ UNCHANGED heap
    /\ Shift

\* card_to_string(card)
CardToString(card) ==
    /\ op' = "card_to_string"
    /\ tokens' = <<>>
    /\ cards' = <<card>>
    /\ err' = card_to_string_err(card)
    /\ ret' = NoValue
    /\ text' = IF card_to_string_err(card) = "" THEN card_to_string(card) ELSE <<>>
    /\ eq' = NoEq
    /\ after' = NoLists
    /\ UNCHANGED heap
    /\ Shift

\* hand_rank_name(rank): the name returned is kept in text
HandRankName(rank) ==
    /\ op' = "hand_rank_name"
    /\ tokens' = <<>>
    /\ cards' = <<rank>>
    /\ err' = ""
    /\ ret' = NoValue
    /\ text' = <<hand_rank_name(rank)>>
    /\ eq' = NoEq
    /\ after' = NoLists
    /\ UNCHANGED heap
    /\ Shift

\* get_preflop_position(state): the member returned is kept by value in
\* ret and by name in text
GetPreflopPosition(index_to_action, index_of_small_blind) ==
    LET d == clockwise_distance(index_to_action, index_of_small_blind)
    IN  /\ op' = "get_preflop_position"
        /\ tokens' = <<>>
        /\ cards' = <<index_to_action, index_of_small_blind>>
        /\ err' = Preflop_Position_err(d)
        /\ ret' = IF Preflop_Position_err(d) = "" THEN d ELSE NoValue
        /\ text' = IF Preflop_Position_err(d) = "" THEN <<Preflop_Position[d + 1]>> ELSE <<>>
        /\ eq' = NoEq
        /\ after' = NoLists
        /\ UNCHANGED heap
        /\ Shift

\* a call of an estimator that ended as r
EquityCall(name, my, opps, n, r) ==
    /\ op' = name
    /\ tokens' = <<>>
    /\ cards' = my
    /\ err' = r.err
    /\ ret' = NoValue
    /\ text' = <<>>
    /\ eq' = [NoEq EXCEPT !.opponents = opps, !.sims = n, !.wins = r.wins,
                          !.ties = r.ties, !.evals = r.evals, !.trials = r.trials,
                          !.num = r.num, !.den = r.den]
    /\ after' = lists_after_estimate(my, opps)
    /\ UNCHANGED heap
    /\ Shift

\* estimate_equity_5cards(my_hand, opponent_hands, num_simulations)
EstimateEquity5Cards(my_hand, opponent_hands, num_simulations) ==
    EquityCall("estimate_equity_5cards", my_hand, opponent_hands, num_simulations,
               estimate_equity_5cards(my_hand, opponent_hands, num_simulations))

\* estimate_equity_7cards(my_cards, opponent_cards, num_simulations)
EstimateEquity7Cards(my_cards, opponent_cards, num_simulations) ==
    EquityCall("estimate_equity_7cards", my_cards, opponent_cards, num_simulations,
               estimate_equity_7cards(my_cards, opponent_cards, num_simulations))

\* ec.estimate_equity(hero_hole, villain_range, num_opps, community_hand,
\* num_sims) as bet calls it: the attribute lookup raises and nothing runs
EstimateEquity(hero_hole, villain_range, num_opps, community_hand, num_sims) ==
    /\ op' = "estimate_equity"
    /\ tokens' = hero_hole
    /\ cards' = <<>>
    /\ err' = ec_attribute_err("estimate_equity")
    /\ ret' = NoValue
    /\ text' = <<>>
    /\ eq' = [NoEq EXCEPT !.pool = villain_range, !.num_opps = num_opps,
                          !.board = community_hand, !.sims = num_sims]
    /\ after' = [my |-> hero_hole, opps |-> <<>>]
    /\ UNCHANGED heap
    /\ Shift

\* bet(state, memory) after the flop. The state is kept in text (players),
\* cards (bet_money), tokens (player_cards) and eq; the Memory object is
\* changed in place before the call raises. The villain range is built
\* from float scores and dropped by the raise, so it is not kept.
Bet(players, bet_money, index_to_action, pots, player_cards, community_cards) ==
    /\ op' = "bet"
    /\ tokens' = player_cards
    /\ cards' = bet_money
    /\ text' = players
    /\ err' = bet_err(players, bet_money, index_to_action)
    /\ ret' = NoValue
    /\ eq' = [NoEq EXCEPT
                !.index_to_action = index_to_action,
                !.pots = pots,
                !.board = community_cards,
                !.players_in_pot = bet_players_in_pot(players, bet_money, index_to_action),
                !.num_opps =
                    IF bet_err(players, bet_money, index_to_action)
                           = ec_attribute_err("estimate_equity")
                    THEN max({1, Len(bet_players_in_pot(players, bet_money,
                                                        index_to_action))})
                    ELSE 0]
    /\ after' = NoLists
    /\ heap' = [heap EXCEPT !.memory =
                    track_players(heap.memory, players, bet_money,
                                  main_pot_value_of(pots), 1)]
    /\ Shift

\* random.seed(s), as the tests call it between two estimates
Seed(s) ==
    /\ heap' = [heap EXCEPT !.rng = random_seed(s)]
    /\ UNCHANGED <<op, tokens, cards, ret, text, err,
                   prevOp, prevTokens, prevCards, prevRet, prevText, prevErr,
                   eq, after, calls, first>>

Init ==
    /\ op = "none"
    /\ tokens = <<>>
    /\ cards = <<>>
    /\ ret = NoValue
    /\ text = <<>>
    /\ err = ""
    /\ prevOp = "none"
    /\ prevTokens = <<>>
    /\ prevCards = <<>>
    /\ prevRet = NoValue
    /\ prevText = <<>>
    /\ prevErr = ""
    /\ eq = NoEq
    /\ after = NoLists
    /\ heap = [flush_table |-> _build_flush_table,
               unique_table |-> _build_unique_table, rng |-> Unseeded,
               memory |-> Memory]
    /\ calls = 0
    /\ first = [op |-> "none", tokens |-> <<>>, cards |-> <<>>, eq |-> NoEq,
                ret |-> NoValue, text |-> <<>>, err |-> "", rng |-> Unseeded]

\* A run is one call (FirstCall) or two calls (SecondCall allowed): the
\* functions keep nothing between calls, so a third call shows nothing new.
FirstCall == op = "none"
SecondCall == prevOp = "none"

\* two evaluate_hand calls on five-card hands over RankPool
NextHand == \E h \in Hands : SecondCall /\ EvaluateHand(h)
SpecHand == Init /\ [][NextHand]_vars


\* two evaluate_hand calls on the hands of five distinct ranks among the
\* lowest DistinctRanks ranks, in one suit and in two
NextDistinct == \E h \in DistinctHands : SecondCall /\ EvaluateHand(h)
SpecDistinct == Init /\ [][NextDistinct]_vars

\* two evaluate_hand calls on the straights and the hands next to them
NextStraight == \E h \in StraightHands : SecondCall /\ EvaluateHand(h)
SpecStraight == Init /\ [][NextStraight]_vars

\* string_to_card and card_to_string: one call, two string_to_card calls,
\* or one call followed by the other on its result
NextCodec ==
    \/ \E t \in CardStrings :
        /\ SecondCall /\ op \in {"none", "string_to_card"} /\ err = ""
        /\ StringToCard(t)
    \/ \E c \in 0..MaxCardInt : FirstCall /\ CardToString(c)
    \/ SecondCall /\ op = "string_to_card" /\ err = "" /\ CardToString(ret)
    \/ SecondCall /\ op = "card_to_string" /\ err = "" /\ StringToCard(text)
SpecCodec == Init /\ [][NextCodec]_vars

\* one call of evaluate_hand or evaluate_best_hand on lists of any length,
\* with and without a repeated card, as integers and as strings
NextBest ==
    \/ \E h \in IntInputs5 : FirstCall /\ EvaluateHand(h)
    \/ \E t \in StrInputs5 : FirstCall /\ EvaluateHandStr(t)
    \/ \E h \in IntInputs7 : FirstCall /\ EvaluateBestHand(h)
    \/ \E t \in StrInputs7 : FirstCall /\ EvaluateBestHandStr(t)
SpecBest == Init /\ [][NextBest]_vars

\* evaluate_hand on a hand over RankPool or next to a straight, then
\* hand_rank_name on the value returned
NextName ==
    \/ \E h \in Hands \cup StraightHands : FirstCall /\ EvaluateHand(h)
    \/ SecondCall /\ op = "evaluate_hand" /\ err = "" /\ HandRankName(ret)
SpecName == Init /\ [][NextName]_vars

\* two calls of get_preflop_position
NextPosition ==
    \E p \in 0..MaxSeat, sb \in 0..MaxSeat : SecondCall /\ GetPreflopPosition(p, sb)
SpecPosition == Init /\ [][NextPosition]_vars

\* one call of an estimator, or of ec.estimate_equity as bet calls it
NextEquity ==
    \/ \E my \in Given5, opps \in ListsUpTo(Given5, MaxOpponents), n \in 0..MaxSims :
        FirstCall /\ EstimateEquity5Cards(my, opps, n)
    \/ \E my \in Given7, opps \in ListsUpTo(Given7, MaxOpponents), n \in 0..MaxSims :
        FirstCall /\ EstimateEquity7Cards(my, opps, n)
    \/ \E hole \in HeroHoles, pool \in Pools, k \in 1..MaxOpps, board \in Boards,
          n \in 1..MaxSims :
        FirstCall /\ EstimateEquity(hole, pool, k, board, n)
SpecEquity == Init /\ [][NextEquity]_vars

\* an estimate, then the estimate of the same hands with any trial count
NextTrials ==
    \/ \E my \in Given5, opps \in ListsUpTo(Given5, MaxOpponents), n \in 1..MaxSims :
        FirstCall /\ EstimateEquity5Cards(my, opps, n)
    \/ \E my \in Given7, opps \in ListsUpTo(Given7, MaxOpponents), n \in 1..MaxSims :
        FirstCall /\ EstimateEquity7Cards(my, opps, n)
    \/ \E n \in 1..MaxSims :
        /\ calls = 1 /\ op = "estimate_equity_5cards"
        /\ EstimateEquity5Cards(cards, eq.opponents, n)
    \/ \E n \in 1..MaxSims :
        /\ calls = 1 /\ op = "estimate_equity_7cards"
        /\ EstimateEquity7Cards(cards, eq.opponents, n)
SpecTrials == Init /\ [][NextTrials]_vars

\* three calls, the third being the first again with the same arguments;
\* random.seed may be called before each of them
NextRepeat ==
    \/ \E h \in RepeatHands5 : calls < 2 /\ EvaluateHand(h)
    \/ \E h \in RepeatHands7 : calls < 2 /\ EvaluateBestHand(h)
    \/ \E my \in RepeatHands5, opps \in ListsUpTo(RepeatHands5, 1) :
        calls < 2 /\ EstimateEquity5Cards(my, opps, MaxSims)
    \/ \E my \in RepeatHands7, opps \in ListsUpTo(RepeatHands7, 1) :
        calls < 2 /\ EstimateEquity7Cards(my, opps, MaxSims)
    \/ \E s \in Seeds : calls < 3 /\ heap.rng # random_seed(s) /\ Seed(s)
    \/ calls = 2 /\ first.op = "evaluate_hand" /\ EvaluateHand(first.cards)
    \/ calls = 2 /\ first.op = "evaluate_best_hand" /\ EvaluateBestHand(first.cards)
    \/ /\ calls = 2 /\ first.op = "estimate_equity_5cards"
       /\ EstimateEquity5Cards(first.cards, first.eq.opponents, first.eq.sims)
    \/ /\ calls = 2 /\ first.op = "estimate_equity_7cards"
       /\ EstimateEquity7Cards(first.cards, first.eq.opponents, first.eq.sims)
SpecRepeat == Init /\ [][NextRepeat]_vars

-----------------------------------------------------------------------------
(* The standard ranking of five-card hands (spec sections 3 and 4.2), the  *)
(* yardstick of the ordering claims.  It is written from the rules, not    *)
(* from the evaluator: category first, then the ranks of the groups        *)
(* (larger group first, higher rank first), the kickers last.              *)

StdRanks(h) == [i \in DOMAIN h |-> h[i] % 16]
StdSuits(h) == {(h[i] \div 16) % 4 : i \in DOMAIN h}
StdRankSet(h) == {h[i] % 16 : i \in DOMAIN h}
StdWheel(h) == StdRankSet(h) = {ACE, DEUCE, DEUCE + 1, FOUR, FIVE}
StdFlush(h) == Cardinality(StdSuits(h)) = 1
StdStraight(h) ==
    /\ Cardinality(StdRankSet(h)) = 5
    /\ \/ \E lo \in DEUCE..ACE : StdRankSet(h) = lo..(lo + 4)
       \/ StdWheel(h)
StdTimes(h, r) == Cardinality({i \in DOMAIN h : h[i] % 16 = r})
StdShape(h) == {StdTimes(h, r) : r \in StdRankSet(h)}

\* 8 straight flush, 7 four of a kind, 6 full house, 5 flush, 4 straight,
\* 3 three of a kind, 2 two pair, 1 pair, 0 high card
StdCategory(h) ==
    IF StdFlush(h) /\ StdStraight(h) THEN 8
    ELSE IF 4 \in StdShape(h) THEN 7
    ELSE IF StdShape(h) = {3, 2} THEN 6
    ELSE IF StdFlush(h) THEN 5
    ELSE IF StdStraight(h) THEN 4
    ELSE IF 3 \in StdShape(h) THEN 3
    ELSE IF Cardinality(StdRankSet(h)) = 3 THEN 2
    ELSE IF Cardinality(StdRankSet(h)) = 4 THEN 1
    ELSE 0

\* the high card of a straight: the five for the wheel
StdStraightHigh(h) == IF StdWheel(h) THEN FIVE ELSE max(StdRankSet(h))

\* the tie-break tuple: the straight's high card, or the distinct ranks
\* ordered by group size and then by rank, both descending
StdTieBreak(h) ==
    IF StdStraight(h) THEN <<StdStraightHigh(h)>>
    ELSE LET D == StdRankSet(h)
             key(r) == StdTimes(h, r) * 16 + r
         IN  [i \in 1..Cardinality(D) |->
                CHOOSE r \in D : Cardinality({q \in D : key(q) > key(r)}) = i - 1]

\* category and tie-break tuple as one number, compared as the tuples are
StdKey(h) ==
    LET tb == StdTieBreak(h)
    IN  StdCategory(h) * (13 ^ 5)
            + sum([i \in 1..Len(tb) |-> tb[i] * (13 ^ (5 - i))])

\* both calls of the run were evaluate_hand and both returned
TwoHandsEvaluated ==
    /\ op = "evaluate_hand" /\ prevOp = "evaluate_hand"
    /\ err = "" /\ prevErr = ""

-----------------------------------------------------------------------------
(* C1: for valid five-card hands A and B, evaluate_hand(A) <               *)
(* evaluate_hand(B) if and only if A is strictly the stronger hand under   *)
(* the standard ranking (category, then the ordered tie-break ranks).      *)
C1_StrictOrderIffStronger ==
    TwoHandsEvaluated =>
        ((ret < prevRet) <=> (StdKey(cards) > StdKey(prevCards)))

(* C2: for valid five-card hands A and B, evaluate_hand(A) =               *)
(* evaluate_hand(B) if and only if the two hands have the same category    *)
(* and the same ordered tuple of group ranks and kickers, suits ignored.   *)
C2_EqualIffSameCategoryAndTuple ==
    TwoHandsEvaluated =>
        ((ret = prevRet) <=>
            (/\ StdCategory(cards) = StdCategory(prevCards)
             /\ StdTieBreak(cards) = StdTieBreak(prevCards)))

(* C3: category bands never overlap: a hand of a strictly stronger         *)
(* category always gets a smaller value than a hand of a weaker category.  *)
C3_CategoryBandsDisjoint ==
    TwoHandsEvaluated =>
        (StdCategory(cards) > StdCategory(prevCards) => ret < prevRet)

(* C4: the suited wheel A-2-3-4-5 is the weakest straight flush: its value *)
(* is strictly greater than the value of every other straight flush and    *)
(* strictly smaller than the value of any flush that is not a straight.    *)
C4_WheelWeakestStraightFlush ==
    (TwoHandsEvaluated /\ StdWheel(prevCards) /\ StdFlush(prevCards)) =>
        /\ (StdCategory(cards) = 8 /\ ~StdWheel(cards)) => prevRet > ret
        /\ StdCategory(cards) = 5 => prevRet < ret

(* C5: off-suit A-2-3-4-5 is recognised as a straight (it beats every      *)
(* high-card hand) and is the weakest straight: among straights that are   *)
(* not flushes the hand with the higher top card has the smaller value,    *)
(* the wheel's top card being the five.                                    *)
C5_WheelWeakestStraight ==
    (TwoHandsEvaluated /\ StdCategory(prevCards) = 4) =>
        /\ StdCategory(cards) = 4 =>
            ((StdStraightHigh(cards) > StdStraightHigh(prevCards)) <=> (ret < prevRet))
        /\ (StdWheel(prevCards) /\ StdCategory(cards) = 0) => prevRet < ret

\* the off-suit wheel was evaluated, then the off-suit six-high straight
C5_Witness ==
    /\ TwoHandsEvaluated
    /\ StdWheel(prevCards) /\ StdCategory(prevCards) = 4
    /\ StdCategory(cards) = 4 /\ StdStraightHigh(cards) = SIX
    /\ ret < prevRet

-----------------------------------------------------------------------------
\* the length of the list the last call was given
InputLen == IF tokens # <<>> THEN Len(tokens) ELSE Len(cards)

\* the last call was given the same physical card twice
RepeatedCard == \E i, j \in DOMAIN cards : i < j /\ cards[i] = cards[j]

\* the least five-card value over the five-card subsets of a set of cards,
\* each subset evaluated in increasing card order
BestOfSubsets(S) ==
    min({_evaluate(Ascending(T)) : T \in {U \in SUBSET S : Cardinality(U) = 5}})

(* C6: for every list of seven distinct cards evaluate_best_hand returns   *)
(* the minimum of the five-card evaluation over the 21 five-card subsets   *)
(* of the cards, whatever order the cards are given in.                    *)
C6_BestOfSevenIsMinOverSubsets ==
    (op = "evaluate_best_hand" /\ Len(cards) = 7 /\ ~RepeatedCard) =>
        /\ err = ""
        /\ Cardinality({U \in SUBSET set(cards) : Cardinality(U) = 5}) = 21
        /\ ret = BestOfSubsets(set(cards))

\* seven distinct cards whose best hand is not the first five cards given
C6_Witness ==
    /\ op = "evaluate_best_hand" /\ Len(cards) = 7 /\ ~RepeatedCard /\ err = ""
    /\ ret < _evaluate(SubSeq(cards, 1, 5))
    /\ ret < _evaluate(SubSeq(cards, 3, 7))

C8_DuplicateCardRejected ==
    (/\ \/ op = "evaluate_hand" /\ Len(cards) = 5
        \/ op = "evaluate_best_hand" /\ Len(cards) = 7
     /\ RepeatedCard) =>
        (err # "" /\ ret = NoValue)

-----------------------------------------------------------------------------
\* a token of the input format (spec section 6): a rank character and a
\* suit character, in either case
IsCardString(t) == Len(t) = 2 /\ t[1] \in RankChars /\ t[2] \in SuitChars

\* the token in lower case
LowerCase(t) == [i \in DOMAIN t |-> lower(t[i])]

\* the integers string_to_card returns for the 52 cards
Encoded == {string_to_card(t) : t \in {u \in TwoChars : IsCardString(u)}}

\* the run was two string_to_card calls on tokens of the input format
TwoCardsEncoded ==
    /\ op = "string_to_card" /\ prevOp = "string_to_card"
    /\ IsCardString(tokens[1]) /\ IsCardString(prevTokens[1])

(* C9 as stated: string_to_card is a bijection from the 52 (rank, suit)    *)
(* pairs onto a dense integer range: distinct cards get distinct integers  *)
(* and the 52 integers are a gap-free interval of consecutive integers.    *)
C9_BijectionOntoInterval ==
    TwoCardsEncoded =>
        /\ err = "" /\ prevErr = ""
        /\ LowerCase(tokens[1]) # LowerCase(prevTokens[1]) => ret # prevRet
        /\ \A n \in prevRet..ret : n \in Encoded

(* C9 amended: string_to_card is an injection of the 52 (rank, suit) pairs *)
(* into 0..60: distinct cards get distinct integers, and each integer is   *)
(* rank + 16 * suit with rank in 0..12 and suit in 0..3, so the 52 values  *)
(* are four runs of 13 consecutive integers, not one interval.             *)
C9_InjectionIntoBitFields ==
    TwoCardsEncoded =>
        /\ err = "" /\ prevErr = ""
        /\ LowerCase(tokens[1]) # LowerCase(prevTokens[1]) => ret # prevRet
        /\ ret \in 0..60 /\ ret % 16 \in 0..12
        /\ Cardinality(Encoded) = 52

\* two cards were encoded with an integer between them that encodes no card
C9_Witness ==
    /\ TwoCardsEncoded /\ err = "" /\ prevErr = ""
    /\ LowerCase(tokens[1]) # LowerCase(prevTokens[1])
    /\ \E n \in prevRet..ret : n \notin Encoded

(* C10: encoding and decoding are mutually inverse and case-insensitive:   *)
(* a token of the input format in any letter case is encoded, and decodes  *)
(* to the token in lower case; two spellings of one card encode to the     *)
(* same integer; every integer c that encodes a card is decoded, and the   *)
(* decoded string encodes to c again.                                      *)
C10_CodecRoundTrip ==
    /\ (op = "string_to_card" /\ IsCardString(tokens[1])) => err = ""
    /\ (op = "card_to_string" /\ prevOp = "string_to_card"
            /\ IsCardString(prevTokens[1])) =>
        (err = "" /\ text = LowerCase(prevTokens[1]))
    /\ (TwoCardsEncoded /\ LowerCase(tokens[1]) = LowerCase(prevTokens[1])) =>
        ret = prevRet
    /\ (op = "card_to_string" /\ cards[1] \in Encoded) => err = ""
    /\ (op = "string_to_card" /\ prevOp = "card_to_string"
            /\ prevCards[1] \in Encoded) =>
        (err = "" /\ ret = prevCards[1])

\* an upper-case token was encoded and decoded to its lower-case spelling
C10_Witness ==
    /\ op = "card_to_string" /\ prevOp = "string_to_card"
    /\ prevTokens = <<(<<"A", "C">>)>>
    /\ text = <<"a", "c">>

-----------------------------------------------------------------------------
(* C11: string_to_card fails with its invalid-card error for every token   *)
(* that is not exactly two characters long or whose rank or suit character *)
(* is unrecognised, and returns no card for such a token, tokens of length *)
(* 0, 1 and 3 included.                                                    *)
C11_MalformedTokenRejected ==
    (op = "string_to_card" /\ ~IsCardString(tokens[1])) =>
        (err = "ValueError: Invalid card string" /\ ret = NoValue)

-----------------------------------------------------------------------------
\* the estimators, and the number of cards in the hands they take
Estimators == {"estimate_equity_5cards", "estimate_equity_7cards"}
HandSize == IF op = "estimate_equity_5cards" THEN 5 ELSE 7

\* the last call was an estimator and it returned an equity
EquityReturned == op \in Estimators /\ err = ""

\* the last call was an estimator given a hero hand and opponent hands of
\* the right size, at least one opponent and at least one trial
WellFormedEstimate ==
    /\ op \in Estimators /\ Len(cards) = HandSize
    /\ eq.opponents # <<>> /\ eq.sims >= 1
    /\ \A i \in DOMAIN eq.opponents : Len(eq.opponents[i]) = HandSize

(* C12: the equity returned by both estimators is (wins + 0.5 * ties) /    *)
(* trial_count for every number of opponents: a tied trial contributes     *)
(* exactly 0.5, so a hero tied with a single opponent gets 0.5.            *)
C12_TieWorthHalf ==
    WellFormedEstimate =>
        /\ err = ""
        /\ eq.num * (2 * eq.sims) = (2 * eq.wins + eq.ties) * eq.den

(* C13: when the hero's five cards are strictly better, under the standard *)
(* ranking, than every opponent hand the equity is exactly 1, and when     *)
(* they are strictly worse than at least one opponent hand it is exactly   *)
(* 0, for every trial count N >= 1.                                        *)
C13_DominanceGivesOneOrZero ==
    (WellFormedEstimate /\ op = "estimate_equity_5cards") =>
        /\ (\A i \in DOMAIN eq.opponents : StdKey(cards) > StdKey(eq.opponents[i]))
                => (err = "" /\ eq.num = eq.den)
        /\ (\E i \in DOMAIN eq.opponents : StdKey(cards) < StdKey(eq.opponents[i]))
                => (err = "" /\ eq.num = 0)

(* C14: for every hero hand, every list of opponent hands, the empty list  *)
(* included, and every trial count, the value an estimator returns lies in *)
(* [0, 1]; at the end of the loop wins + ties <= N, and the credit given   *)
(* for ties, the equity times N less the wins, is at most the number of    *)
(* tied trials.                                                            *)
C14_EquityInUnitInterval ==
    EquityReturned =>
        /\ eq.den > 0 /\ 0 <= eq.num /\ eq.num <= eq.den
        /\ eq.wins >= 0 /\ eq.ties >= 0 /\ eq.wins + eq.ties <= eq.sims
        /\ eq.num * eq.sims - eq.wins * eq.den <= eq.ties * eq.den

\* two tied opponents, every trial tied, and an equity of one half returned
C14_Witness ==
    /\ EquityReturned /\ Len(eq.opponents) = 2
    /\ eq.sims >= 1 /\ eq.ties = eq.sims /\ eq.wins = 0
    /\ eq.num * 2 = eq.den

C16_SmallPoolRejected ==
    (op = "estimate_equity" /\ Len(eq.pool) < 2 * eq.num_opps) =>
        (err = "InsufficientPoolSize" /\ eq.trials = 0)

(* C17: an opponent hand of the wrong size is reported before the hero's   *)
(* hand or any opponent hand is evaluated and before the first trial       *)
(* starts, whichever position the hand has in the opponent list: the call  *)
(* ends in the wrong-size error with no hand evaluated, no trial started.  *)
C17_WrongSizeOpponentFailsFast ==
    (/\ op \in Estimators /\ Len(cards) = HandSize /\ eq.sims >= 1
     /\ \E i \in DOMAIN eq.opponents : Len(eq.opponents[i]) # HandSize) =>
        /\ err \in {"ValueError: Each opponent hand must be exactly 5 cards",
                    "ValueError: Each opponent hand must be exactly 7 cards"}
        /\ eq.evals = 0 /\ eq.trials = 0

-----------------------------------------------------------------------------
\* tuple a comes before tuple b in descending lexicographic order
LexGreater(a, b) ==
    \E i \in DOMAIN a : a[i] > b[i] /\ \A j \in 1..(i - 1) : a[j] = b[j]

\* both calls evaluated a hand of category c
TwoOfCategory(c) ==
    TwoHandsEvaluated /\ StdCategory(cards) = c /\ StdCategory(prevCards) = c

(* C19: among one-pair hands the order is lexicographic over (pair rank,   *)
(* highest kicker, middle kicker, lowest kicker): the hand whose tuple     *)
(* comes first has the smaller value, and a higher pair always beats a     *)
(* lower pair whatever the kickers.                                        *)
C19_PairOrderLexicographic ==
    TwoOfCategory(1) =>
        /\ (ret < prevRet) <=> LexGreater(StdTieBreak(cards), StdTieBreak(prevCards))
        /\ StdTieBreak(cards)[1] > StdTieBreak(prevCards)[1] => ret < prevRet

(* C20: among three-of-a-kind hands the order is lexicographic over (trip  *)
(* rank, higher kicker, lower kicker): a higher trip rank always gives a   *)
(* strictly smaller value whatever the kickers, and distinct tuples never  *)
(* receive the same value.                                                 *)
C20_TripsOrderLexicographic ==
    TwoOfCategory(3) =>
        /\ (ret < prevRet) <=> LexGreater(StdTieBreak(cards), StdTieBreak(prevCards))
        /\ StdTieBreak(cards)[1] > StdTieBreak(prevCards)[1] => ret < prevRet
        /\ StdTieBreak(cards) # StdTieBreak(prevCards) => ret # prevRet

-----------------------------------------------------------------------------
(* C21: among two-pair hands the order is lexicographic over (higher pair  *)
(* rank, lower pair rank, kicker): the higher pair decides first, then the *)
(* lower pair, then the kicker, and distinct tuples never receive the same *)
(* value.                                                                  *)
C21_TwoPairOrderLexicographic ==
    TwoOfCategory(2) =>
        /\ (ret < prevRet) <=> LexGreater(StdTieBreak(cards), StdTieBreak(prevCards))
        /\ StdTieBreak(cards) # StdTieBreak(prevCards) => ret # prevRet

(* C22: among hands of five distinct ranks that are not straights, the     *)
(* high-card hands among themselves and the flushes among themselves, the  *)
(* order is lexicographic over the five ranks in descending order, and two *)
(* such hands get the same value only if all five ranks are equal.         *)
C22_DistinctRanksOrderLexicographic ==
    (TwoOfCategory(0) \/ TwoOfCategory(5)) =>
        /\ (ret < prevRet) <=>
                LexGreater(sorted_reverse(StdRanks(cards)), sorted_reverse(StdRanks(prevCards)))
        /\ ret = prevRet => StdRankSet(cards) = StdRankSet(prevCards)

\* the value bands of the documentation, by category (hand_eval.py lines
\* 145-150, 287 and 293); none is given for straight flushes
DocBand(c) ==
    IF c = 7 THEN 1000..1191
    ELSE IF c = 6 THEN 1200..1391
    ELSE IF c = 5 THEN 1400..2215
    ELSE IF c = 4 THEN 1600..2399
    ELSE IF c = 3 THEN 2000..2215
    ELSE IF c = 2 THEN 3000..3255
    ELSE IF c = 1 THEN 4000..6047
    ELSE 6200..INF

(* C24: every value the evaluator returns lies in the band its             *)
(* documentation gives for the hand's category: four of a kind 1000-1191,  *)
(* full house 1200-1391, three of a kind 2000-2215, two pair 3000-3255,    *)
(* pair 4000-6047, high card 6200 and above, flush 1400-2215, straight     *)
(* 1600-2399.                                                              *)
C24_ValueInDocumentedBand ==
    (op = "evaluate_hand" /\ err = "" /\ StdCategory(cards) # 8) =>
        ret \in DocBand(StdCategory(cards))

-----------------------------------------------------------------------------
\* the names of the categories 0..7 (spec section 3)
CategoryName(c) ==
    IF c = 7 THEN "Four of a Kind"
    ELSE IF c = 6 THEN "Full House"
    ELSE IF c = 5 THEN "Flush"
    ELSE IF c = 4 THEN "Straight"
    ELSE IF c = 3 THEN "Three of a Kind"
    ELSE IF c = 2 THEN "Two Pair"
    ELSE IF c = 1 THEN "Pair"
    ELSE "High Card"

(* C28: for every valid five-card hand h, hand_rank_name(evaluate_hand(h)) *)
(* returns the name of h's category (Four of a Kind, Full House, Flush,    *)
(* Straight, Three of a Kind, Two Pair, Pair, High Card) and always        *)
(* returns a string.                                                       *)
C28_NameOfCategory ==
    (op = "hand_rank_name" /\ prevOp = "evaluate_hand") =>
        /\ text[1] # None
        /\ StdCategory(prevCards) # 8 => text[1] = CategoryName(StdCategory(prevCards))

-----------------------------------------------------------------------------
C30_EachOpponentScoredItself ==
    (op = "estimate_equity_5cards" /\ Len(cards) = 5 /\ eq.sims >= 1) =>
        /\ err = "" => \A i \in DOMAIN eq.opponents : opp_rank_from(eq.opponents, i) = i
        /\ LET turned == estimate_equity_5cards(cards, Reverse(eq.opponents), eq.sims)
           IN  turned.err = err /\ turned.num = eq.num /\ turned.den = eq.den

-----------------------------------------------------------------------------
(* C23: for every index_to_action and index_of_small_blind in 0..5,        *)
(* get_preflop_position returns without error the Preflop_Position whose   *)
(* value is the clockwise seat distance (index_to_action -                 *)
(* index_of_small_blind) mod 6: SB for 0, BB for 1, UTG for 2, MP for 3,   *)
(* CO for 4, BTN for 5.                                                    *)
C23_PositionIsClockwiseDistance ==
    (op = "get_preflop_position" /\ cards[1] \in 0..5 /\ cards[2] \in 0..5) =>
        /\ err = ""
        /\ ret = (cards[1] - cards[2]) % 6
        /\ text = <<(<<"SB", "BB", "UTG", "MP", "CO", "BTN">>)[ret + 1]>>

\* the hero in seat 0 behind the small blind in seat 5 is the big blind,
\* after a call in which the hero was the button
C23_Witness ==
    /\ op = "get_preflop_position" /\ cards = <<0, 5>> /\ err = ""
    /\ ret = 1 /\ text = <<"BB">>
    /\ prevOp = "get_preflop_position" /\ prevText = <<"BTN">>


\* ---------------------------------------------------------------------
\* bot.py: the deck and the villain range
\* ---------------------------------------------------------------------
RANKS == <<"2", "3", "4", "5", "6", "7", "8", "9", "T", "J", "Q", "K", "A">>
SUITS == <<"s", "h", "d", "c">>

\* full_deck(): [r + s for r in RANKS for s in SUITS]
full_deck ==
    [i \in 1..(Len(RANKS) * Len(SUITS)) |->
        <<RANKS[((i - 1) \div Len(SUITS)) + 1], SUITS[((i - 1) % Len(SUITS)) + 1]>>]

\* _normalize_card_list(cards): the set of the strings as they were given
_normalize_card_list(card_list) == set(card_list)

\* round(n / d) of Python 3 for n >= 0, d > 0: halves go to the even side
round_half_even(n, d) ==
    LET q == n \div d
        r == n % d
    IN  IF 2 * r < d THEN q
        ELSE IF 2 * r > d THEN q + 1
        ELSE IF q % 2 = 0 THEN q ELSE q + 1

clamp(x, lo, hi) == IF x < lo THEN lo ELSE IF x > hi THEN hi ELSE x

\* build_villain_range(scalar, hero_hole, community_cards, pot_bb, min_cards,
\* treat_scalar_as_multiplier). scalar is given in tenths, pot_bb in big
\* blinds with NoValue for None. agg is agg_num / agg_den and pot_norm is
\* pot / 200, so that
\*   start_frac * max_start = pot * (9 * (agg_den - agg_num) + 5 * agg_num)
\*                            * max_start / (2000 * agg_den)
build_villain_range(scalar, hero_hole, community_cards, pot_bb, min_cards, treat_scalar_as_multiplier) ==
    LET removed == _normalize_card_list(hero_hole) \cup _normalize_card_list(community_cards)
        deck_filtered == SelectSeq(full_deck, LAMBDA c : c \notin removed)
        raw_len == scalar
        length == max({min_cards, min({Len(deck_filtered), raw_len})})
        pot == IF pot_bb = NoValue THEN 0 ELSE clamp(pot_bb, 0, 200)
        agg_den == IF treat_scalar_as_multiplier THEN 15 ELSE 10
        agg_num == IF treat_scalar_as_multiplier THEN clamp(scalar - 5, 0, 15)
                   ELSE clamp(scalar, 0, 10)
        max_start == Len(deck_filtered) - length
        start_index ==
            clamp(round_half_even(pot * (9 * (agg_den - agg_num) + 5 * agg_num) * max_start,
                                  2000 * agg_den), 0, max_start)
    IN  IF length >= Len(deck_filtered) THEN deck_filtered
        ELSE IF start_index + length > Len(deck_filtered)
        THEN SubSeq(deck_filtered, start_index + 1, Len(deck_filtered))
        ELSE SubSeq(deck_filtered, start_index + 1, start_index + length)

\* hole cards and boards in the deck's spelling, in lower case and in upper case
RangeHoles ==
    {<<<<"2", "s">>, <<"3", "s">>>>, <<<<"2", "S">>, <<"3", "S">>>>,
     <<<<"k", "h">>, <<"k", "d">>>>, <<<<"K", "h">>, <<"K", "d">>>>,
     <<<<"K", "H">>, <<"K", "D">>>>}
RangeBoards ==
    {<<>>, <<<<"4", "s">>, <<"5", "s">>, <<"6", "s">>>>,
     <<<<"Q", "s">>, <<"J", "d">>, <<"T", "h">>>>,
     <<<<"q", "s">>, <<"j", "d">>, <<"t", "h">>, <<"9", "c">>, <<"8", "c">>>>}
\* scalars in tenths and pots in big blinds; none of them puts
\* start_frac * max_start on a half
RangeScalars == {0, 3, 10, 12, 52}
RangePots == {NoValue, 0, 100, 200}

\* build_villain_range(...): the range is kept in eq.pool, the board in
\* eq.board, the hole cards in tokens
BuildVillainRange(scalar, hero_hole, community_cards, pot_bb, min_cards, treat_scalar_as_multiplier) ==
    LET range == build_villain_range(scalar, hero_hole, community_cards, pot_bb,
                                     min_cards, treat_scalar_as_multiplier)
    IN  /\ op' = "build_villain_range"
        /\ tokens' = hero_hole
        /\ cards' = <<scalar, pot_bb, min_cards>>
        /\ err' = ""
        /\ ret' = Len(range)
        /\ text' = <<>>
        /\ eq' = [NoEq EXCEPT !.pool = range, !.board = community_cards]
        /\ after' = NoLists
        /\ UNCHANGED heap
        /\ Shift

\* one build_villain_range call
NextRange ==
    \E scalar \in RangeScalars, hero_hole \in RangeHoles, community_cards \in RangeBoards,
       pot_bb \in RangePots, treat_scalar_as_multiplier \in BOOLEAN :
        FirstCall /\ BuildVillainRange(scalar, hero_hole, community_cards, pot_bb, 2,
                                       treat_scalar_as_multiplier)
SpecRange == Init /\ [][NextRange]_vars

\* the deck without the physical cards of the last call's hole and board
RangeCleanDeck ==
    SelectSeq(full_deck, LAMBDA c :
        \A t \in set(tokens) \cup set(eq.board) : LowerCase(c) # LowerCase(t))

(***************************************************************************)
(* C27: whatever the letter case of the hole cards and the board,          *)
(* build_villain_range returns a run of neighbouring cards of the deck     *)
(* without the hole cards and the board, so no returned card is the same   *)
(* physical card as a hole card or a board card.                           *)
(***************************************************************************)
C27_RangeAvoidsHeroAndBoard ==
    op = "build_villain_range" =>
        /\ \A i \in DOMAIN eq.pool : \A t \in set(tokens) \cup set(eq.board) :
               LowerCase(eq.pool[i]) # LowerCase(t)
        /\ \E start \in 0..Len(RangeCleanDeck) :
               /\ start + Len(eq.pool) <= Len(RangeCleanDeck)
               /\ eq.pool = SubSeq(RangeCleanDeck, start + 1, start + Len(eq.pool))


\* ---------------------------------------------------------------------
\* bot.py: bet after the flop
\* ---------------------------------------------------------------------
\* one bet call at a table of three
NextBet ==
    \E bet_money \in [DOMAIN BetPlayers -> BetAmounts],
       index_to_action \in 0..(Len(BetPlayers) - 1), pots \in BetPots :
        FirstCall /\ Bet(BetPlayers, bet_money, index_to_action, pots, BetHole, BetBoard)
SpecBet == Init /\ [][NextBet]_vars

\* up to MaxBetCalls bet calls at a table of two, the caller handing the
\* same Memory to each
NextTrack ==
    \E bet_money \in [DOMAIN TrackPlayers -> TrackAmounts],
       index_to_action \in 0..(Len(TrackPlayers) - 1), pots \in TrackPots :
        calls < MaxBetCalls
        /\ Bet(TrackPlayers, bet_money, index_to_action, pots, BetHole, BetBoard)
SpecTrack == Init /\ [][NextTrack]_vars

\* the players other than the hero with money bet, in seat order
NonHeroInPot ==
    LET seats == SelectSeq([k \in DOMAIN cards |-> k],
                           LAMBDA k : cards[k] > 0 /\ k - 1 # eq.index_to_action)
    IN  [j \in DOMAIN seats |-> <<seats[j] - 1, text[seats[j]]>>]

(***************************************************************************)
(* C26: in every bet call after the flop the removal of the hero from      *)
(* players_in_pot does not raise and takes out exactly the hero's entry,   *)
(* whatever the hero's seat and whoever has money bet; the opponent count  *)
(* for the equity estimate is then max(1, number of other players with     *)
(* bet_money > 0).                                                         *)
(***************************************************************************)
C26_HeroRemovedFromPot ==
    op = "bet" =>
        /\ err # "ValueError: list.remove(x): x not in list"
        /\ eq.players_in_pot = NonHeroInPot
        /\ eq.num_opps = max({1, Len(NonHeroInPot)})

\* the estimator updates of player k that the last call had to make: one
\* when the player is first seen with a positive bet, one when the bet
\* differs from the bet of the call before
UpdatesDue(k) ==
    IF calls = 0 THEN (IF cards'[k] > 0 THEN 1 ELSE 0)
    ELSE IF cards'[k] # cards[k] THEN 1 ELSE 0
UpdatesBefore(k) ==
    IF calls = 0 THEN 0 ELSE heap.memory.villain_aggro_map[text[k]].t

(***************************************************************************)
(* C25: over bet calls that share one Memory, after each call every player *)
(* of the table has an estimator in villain_aggro_map, villain_last_bet    *)
(* holds the player's bet_money of that call, and the estimator has been   *)
(* updated once more if the bet differs from the bet of the call before    *)
(* (or the player is first seen with a positive bet) and not otherwise.    *)
(***************************************************************************)
C25_VillainTrackingFollowsBets ==
    [][op' = "bet" =>
        \A k \in DOMAIN text' :
            /\ text'[k] \in DOMAIN heap'.memory.villain_aggro_map
            /\ text'[k] \in DOMAIN heap'.memory.villain_last_bet
            /\ heap'.memory.villain_last_bet[text'[k]] = cards'[k]
            /\ heap'.memory.villain_aggro_map[text'[k]].t = UpdatesBefore(k) + UpdatesDue(k)]_vars

\* three calls: a player first seen with a bet, who then changes it and
\* then leaves it, has two updates
C25_Witness ==
    /\ op = "bet" /\ calls = 3
    /\ \E k \in DOMAIN text :
        /\ first.cards[k] > 0
        /\ prevCards[k] # first.cards[k]
        /\ cards[k] = prevCards[k]
        /\ heap.memory.villain_aggro_map[text[k]].t = 2
        /\ heap.memory.villain_last_bet[text[k]] = cards[k]

=============================================================================
